---- MODULE Spec2Model ----
(***************************************************************************)
(* vigil: concurrent evaluation of SLO error budgets.                      *)
(*                                                                         *)
(* The module models the semaphore-based orchestrator of main.go (main,    *)
(* lines 447-524), the evaluator processSLO (lines 526-564) and the        *)
(* statistics functions of utils/calc.go.                                  *)
(*                                                                         *)
(* Numbers: an error-budget fraction is held in hundredths (0.95 is 95),   *)
(* so that the comparisons of the code are comparisons of integers.  A     *)
(* quotient of two floats (the average, the negative fraction) is held as  *)
(* the pair [num, den] and compared by cross-multiplication.               *)
(***************************************************************************)
EXTENDS Integers, Sequences, FiniteSets, TLC

(***************************************************************************)
(* Bounds of the model.                                                    *)
(***************************************************************************)
\* Largest number of SLOs GetSLOs returns in a run of Spec.
MaxSLOs == 3
\* Capacity of the admission gate.  main.go:436 sets 16; the model runs the
\* same gate with a small capacity so that a full gate is reached.
maxConcurrency == 2
\* Longest point sequence the provider returns in SpecEval.
MaxLen == 4

(***************************************************************************)
(* Inputs.                                                                 *)
(***************************************************************************)
\* Display names GetSLOs may return (two SLOs may share one).
DisplayNames == {"a", "b"}
\* Point values, in hundredths of the budget.
PointValues == {-20, -10, 0, 30, 80, 90, 95}
\* Values of --error-budget-threshold, in hundredths; validateFlags only
\* admits values strictly between 0 and 1.
Thresholds == {30, 90}
\* Default of --error-budget-threshold (0.9).
DefaultThreshold == 90

RECURSIVE SeqsUpTo(_, _)
SeqsUpTo(S, n) ==
    IF n = 0 THEN {<<>>}
    ELSE LET shorter == SeqsUpTo(S, n - 1)
         IN shorter \cup {Append(s, x) : s \in {t \in shorter : Len(t) = n - 1}, x \in S}

(***************************************************************************)
(* model.SLO and the provider.                                             *)
(***************************************************************************)
\* Goal of the i-th SLO, in hundredths; any value in (0,1] will do.
GoalOf(i) == 100 - i

SLO(i, dn) == [Name |-> i, DisplayName |-> dn, Goal |-> GoalOf(i), SLI |-> i]

\* Text by which processSLO recognises the non-fatal failure.
NoDataText == "no data points found"

\* strings.Contains on an error text; a text is the sequence of its parts.
Contains(msg, text) == \E k \in 1..Len(msg) : msg[k] = text

\* The error both providers return for zero points.
ErrNoData(slo) == <<NoDataText, " for SLO: ", slo.DisplayName>>
\* The errors GetErrorBudgetTimeSeries returns for other reasons.
ErrTimeSeries == <<"failed to get time series: ", "rpc error">>
ErrNotExpectedType == <<"is not of expected type: ", "*model.SLO">>
\* The time series error wraps the text of the monitoring service's error
\* (%w), which the service chooses: here a text that holds the no-data text.
ErrTimeSeriesUpstream ==
    <<"failed to get time series: ", "rpc error: code = NotFound desc = ", NoDataText>>
NoErr == <<>>

\* One return of GetErrorBudgetTimeSeries: (good, total, points, err).
FetchOK(i, points) ==
    [good |-> <<"good", i>>, total |-> <<"total", i>>, points |-> points, err |-> NoErr]
FetchErr(e) == [good |-> <<>>, total |-> <<>>, points |-> <<>>, err |-> e]

\* Variant of GetErrorBudgetTimeSeries: a fetch of zero points is returned
\* as a success.
GetErrorBudgetTimeSeriesNoCheck(slo, seqs, hard) ==
    {FetchOK(slo.Name, p) : p \in seqs}
        \cup {FetchErr(ErrNoData(slo))}
        \cup {FetchErr(e) : e \in hard}

\* What the provider may answer for one SLO, given the point sequences it
\* may hold: a non-empty sequence, the no-data error or another error.
GetErrorBudgetTimeSeries(slo, seqs, hard) ==
    {FetchOK(slo.Name, p) : p \in {q \in seqs : Len(q) > 0}}
        \cup {FetchErr(ErrNoData(slo))}
        \cup {FetchErr(e) : e \in hard}

(***************************************************************************)
(* utils/calc.go                                                           *)
(***************************************************************************)
PosInf == [inf |-> TRUE, v |-> 0]
Fin(x) == [inf |-> FALSE, v |-> x]
Less(p, m) == m.inf \/ p < m.v

RECURSIVE MinAvgLoop(_, _, _, _)
MinAvgLoop(points, k, minValue, avgValue) ==
    IF k > Len(points) THEN <<minValue, avgValue>>
    ELSE MinAvgLoop(points, k + 1,
                    IF Less(points[k], minValue) THEN Fin(points[k]) ELSE minValue,
                    avgValue + points[k])

\* Variant of GetMinAvgErrorBudget: no guard for the empty sequence (the
\* form of calc.go lines 44-54); the minimum stays +Inf and the average is 0/0.
GetMinAvgErrorBudgetNoGuard(points) ==
    LET r == MinAvgLoop(points, 1, PosInf, 0)
    IN <<r[1], [num |-> r[2], den |-> Len(points)]>>

\* Variant of GetMinAvgErrorBudget: the minimum starts at 0, not at +Inf.
GetMinAvgErrorBudgetZeroInit(points) ==
    IF Len(points) = 0 THEN <<Fin(0), [num |-> 0, den |-> 1]>>
    ELSE LET r == MinAvgLoop(points, 1, Fin(0), 0)
         IN <<r[1], [num |-> r[2], den |-> Len(points)]>>

\* Returns <<minValue, avgValue>>; avgValue is the quotient num/den.
GetMinAvgErrorBudget(points) ==
    IF Len(points) = 0 THEN <<Fin(0), [num |-> 0, den |-> 1]>>
    ELSE LET r == MinAvgLoop(points, 1, PosInf, 0)
         IN <<r[1], [num |-> r[2], den |-> Len(points)]>>

RECURSIVE NegativeCount(_, _)
NegativeCount(data, k) ==
    IF k > Len(data) THEN 0
    ELSE (IF data[k] < 0 THEN 1 ELSE 0) + NegativeCount(data, k + 1)

\* Variant of IsPercentNegative: no guard for percent (the form of calc.go
\* lines 56-69).
IsPercentNegativeNoGuard(data, percent) ==
    IF Len(data) = 0 THEN FALSE
    ELSE NegativeCount(data, 1) * percent.den >= percent.num * Len(data)

\* Variant of IsPercentNegative: the fraction must exceed percent.
IsPercentNegativeStrict(data, percent) ==
    IF percent.num < 0 \/ percent.num > percent.den THEN FALSE
    ELSE IF Len(data) = 0 THEN FALSE
    ELSE NegativeCount(data, 1) * percent.den > percent.num * Len(data)

\* percent is the quotient num/den with den > 0.
IsPercentNegative(data, percent) ==
    IF percent.num < 0 \/ percent.num > percent.den THEN FALSE
    ELSE IF Len(data) = 0 THEN FALSE
    ELSE NegativeCount(data, 1) * percent.den >= percent.num * Len(data)

Half == [num |-> 1, den |-> 2]

(***************************************************************************)
(* State of one run of main.                                               *)
(***************************************************************************)
VARIABLES
    slos,                 \* the list GetSLOs returned
    resp,                 \* resp[i]: what the provider answers for slos[i]
    errorBudgetThreshold, \* the flag --error-budget-threshold
    mainPc,               \* position of main
    next,                 \* number of SLOs the loop of main has dispatched
    sem,                  \* number of tokens in the channel sem
    wg,                   \* counter of the WaitGroup
    errChan,              \* the errors buffered in errChan, oldest first
    errChanClosed,        \* close(errChan) was executed
    sloData,              \* the result map, display name -> SLOData
    mu,                   \* holder of mu (0: unlocked)
    bar,                  \* number of bar.Add(1) calls
    warnMessages,         \* the package-level warning list
    warnMutex,            \* holder of warnMutex (0: unlocked)
    pc,                   \* pc[i]: position of the goroutine of slos[i]
    local,                \* local[i]: what processSLO computed and returned
    calls,                \* calls[i]: calls of GetErrorBudgetTimeSeries for slos[i]
    sendOrder,            \* the goroutines that sent to errChan, in order of sending
    report,               \* whether generateExcelReport ran, and its argument
    logged,               \* the warnings printed after the report
    surfaced,             \* the errors log.Panicf reported
    calc                  \* a direct application of the functions of utils/calc.go

vars == <<slos, resp, errorBudgetThreshold, mainPc, next, sem, wg, errChan,
          errChanClosed, sloData, mu, bar, warnMessages, warnMutex, pc, local,
          calls, sendOrder, report, logged, surfaced, calc>>

Workers == 1..Len(slos)

EmptyMap == [k \in {} |-> 0]

\* The locals of processSLO before it ran: zero values, nil results.
NoLocal ==
    [flagBelowThreshold |-> FALSE, flagNegative |-> FALSE,
     data |-> EmptyMap, dataNil |-> TRUE, err |-> NoErr]

(***************************************************************************)
(* processSLO, lines 542-563: the evaluation of a fetched point sequence.  *)
(***************************************************************************)
\* Variant of BelowThresholdLoop: a point at or below the threshold sets the
\* flag.
RECURSIVE BelowThresholdLoopAtMost(_, _, _)
BelowThresholdLoopAtMost(points, k, threshold) ==
    IF k > Len(points) THEN FALSE
    ELSE IF points[k] <= threshold THEN TRUE
    ELSE BelowThresholdLoopAtMost(points, k + 1, threshold)

\* Variant of BelowThresholdLoop: the comparison is strict.
RECURSIVE BelowThresholdLoopStrict(_, _, _)
BelowThresholdLoopStrict(points, k, threshold) ==
    IF k > Len(points) THEN FALSE
    ELSE IF points[k] > threshold THEN TRUE
    ELSE BelowThresholdLoopStrict(points, k + 1, threshold)

\* The loop of lines 544-549.
RECURSIVE BelowThresholdLoop(_, _, _)
BelowThresholdLoop(points, k, threshold) ==
    IF k > Len(points) THEN FALSE
    ELSE IF points[k] >= threshold THEN TRUE
    ELSE BelowThresholdLoop(points, k + 1, threshold)

\* The model.SLOData of lines 554-561; Key and TargetSLO keep zero values.
SLOData(slo, f, flagBelowThreshold, flagNegative, threshold) ==
    LET mm == GetMinAvgErrorBudget(f.points)
    IN [Key |-> "", Flag |-> (flagBelowThreshold \/ flagNegative),
        TargetSLO |-> 0, SLO |-> slo.Goal,
        GoodQuery |-> f.good, TotalQuery |-> f.total,
        AvgBudget |-> mm[2], MinBudget |-> mm[1]]

\* The locals of processSLO when the fetch f succeeded.
Evaluate(slo, f, threshold) ==
    LET flagBelowThreshold == BelowThresholdLoop(f.points, 1, threshold)
        flagNegative == IsPercentNegative(f.points, Half)
    IN [flagBelowThreshold |-> flagBelowThreshold,
        flagNegative |-> flagNegative,
        data |-> (slo.DisplayName :>
                    SLOData(slo, f, flagBelowThreshold, flagNegative, threshold)),
        dataNil |-> FALSE, err |-> NoErr]

\* Variant of IsNoData: no failure is recognised as a warning.
IsNoDataNever(err) == FALSE

\* Line 533: the failures processSLO turns into warnings.
IsNoData(err) == Contains(err, NoDataText)

\* Line 488: the error the goroutine sends.
WrapErr(slo, err) == <<"failed to process SLO ", slo.DisplayName, ": ">> \o err

(***************************************************************************)
(* Initial states.                                                         *)
(***************************************************************************)
\* Point sequences and other errors of the provider in Spec.
MainSeqs == {<<95, 80>>}
MainHard == {ErrTimeSeries}
\* Other errors of the provider in SpecEval.
EvalHard == {ErrTimeSeries, ErrNotExpectedType, ErrTimeSeriesUpstream}

\* Inputs of the functions of utils/calc.go in SpecCalc: values of both signs
\* and zero; fractions inside, on the border of and outside [0, 1].
CalcValues == {-20, -10, 0, 30}
Percents ==
    {[num |-> -1, den |-> 2], [num |-> 0, den |-> 1], [num |-> 1, den |-> 4],
     Half, [num |-> 1, den |-> 1], [num |-> 3, den |-> 2]}

\* No function of utils/calc.go has been applied.
Calc(data, percent) ==
    [data |-> data, percent |-> percent, called |-> {},
     negative |-> FALSE, minValue |-> PosInf, avgValue |-> [num |-> 0, den |-> 0]]
NoCalc == Calc(<<>>, Half)

InitRun(n) ==
    /\ mainPc = "dispatch"
    /\ next = 0
    /\ sem = 0
    /\ wg = 0
    /\ errChan = <<>>
    /\ errChanClosed = FALSE
    /\ sloData = EmptyMap
    /\ mu = 0
    /\ bar = 0
    /\ warnMessages = <<>>
    /\ warnMutex = 0
    /\ pc = [i \in 1..n |-> "idle"]
    /\ local = [i \in 1..n |-> NoLocal]
    /\ calls = [i \in 1..n |-> 0]
    /\ sendOrder = <<>>
    /\ report = [called |-> FALSE, data |-> EmptyMap]
    /\ logged = <<>>
    /\ surfaced = <<>>

\* A run over up to MaxSLOs SLOs with the default threshold.  Display names
\* are interchangeable, so the first SLO is given the name "a".
Init ==
    \E n \in 0..MaxSLOs :
        /\ \E dn \in [1..n -> DisplayNames] :
                /\ n >= 1 => dn[1] = "a"
                /\ slos = [i \in 1..n |-> SLO(i, dn[i])]
        /\ resp \in [1..n -> UNION {GetErrorBudgetTimeSeries(SLO(i, d), MainSeqs, MainHard) :
                                        i \in 1..n, d \in DisplayNames}]
        /\ \A i \in 1..n : resp[i] \in GetErrorBudgetTimeSeries(slos[i], MainSeqs, MainHard)
        /\ errorBudgetThreshold = DefaultThreshold
        /\ InitRun(n)
        /\ calc = NoCalc

\* A run over one SLO, for every point sequence and threshold of the bounds.
InitEval ==
    /\ slos = <<SLO(1, "a")>>
    /\ \E f \in GetErrorBudgetTimeSeries(slos[1], SeqsUpTo(PointValues, MaxLen), EvalHard) :
            resp = <<f>>
    /\ errorBudgetThreshold \in Thresholds
    /\ InitRun(1)
    /\ calc = NoCalc

(***************************************************************************)
(* main, lines 477-503: the dispatch loop.                                 *)
(***************************************************************************)
\* Variant of Dispatch: the goroutine is started without a free slot.
DispatchNoGate ==
    /\ mainPc = "dispatch"
    /\ next < Len(slos)
    /\ wg' = wg + 1
    /\ sem' = sem + 1
    /\ next' = next + 1
    /\ pc' = [pc EXCEPT ![next + 1] = "start"]
    /\ UNCHANGED <<calc, slos, resp, errorBudgetThreshold, mainPc, errChan, errChanClosed,
                   sloData, mu, bar, warnMessages, warnMutex, local, calls,
                   sendOrder, report, logged, surfaced>>

\* One iteration: wg.Add(1), sem <- struct{}{} (blocks while the gate is
\* full), go func(slo).
Dispatch ==
    /\ mainPc = "dispatch"
    /\ next < Len(slos)
    /\ sem < maxConcurrency
    /\ wg' = wg + 1
    /\ sem' = sem + 1
    /\ next' = next + 1
    /\ pc' = [pc EXCEPT ![next + 1] = "start"]
    /\ UNCHANGED <<calc, slos, resp, errorBudgetThreshold, mainPc, errChan, errChanClosed,
                   sloData, mu, bar, warnMessages, warnMutex, local, calls,
                   sendOrder, report, logged, surfaced>>

\* The range loop is exhausted; main reaches wg.Wait().
LoopExit ==
    /\ mainPc = "dispatch"
    /\ next = Len(slos)
    /\ mainPc' = "wait"
    /\ UNCHANGED <<calc, slos, resp, errorBudgetThreshold, next, sem, wg, errChan,
                   errChanClosed, sloData, mu, bar, warnMessages, warnMutex, pc,
                   local, calls, sendOrder, report, logged, surfaced>>

(***************************************************************************)
(* The goroutine of slos[i], lines 482-502, with processSLO inlined.       *)
(***************************************************************************)
\* processSLO calls the provider (line 531).
Call(i) ==
    /\ pc[i] = "start"
    /\ pc' = [pc EXCEPT ![i] = "fetch"]
    /\ calls' = [calls EXCEPT ![i] = @ + 1]
    /\ UNCHANGED <<calc, slos, resp, errorBudgetThreshold, mainPc, next, sem, wg, errChan,
                   errChanClosed, sloData, mu, bar, warnMessages, warnMutex, local,
                   sendOrder, report, logged, surfaced>>

\* Variant of FetchReturn: a failed fetch is tried a second time.
FetchReturnRetry(i) ==
    /\ pc[i] = "fetch"
    /\ LET f == resp[i]
       IN IF f.err # NoErr
          THEN IF calls[i] < 2
               THEN /\ pc' = [pc EXCEPT ![i] = "start"]
                    /\ local' = local
               ELSE IF IsNoData(f.err)
               THEN /\ pc' = [pc EXCEPT ![i] = "warnLock"]
                    /\ local' = [local EXCEPT ![i].err = f.err]
               ELSE /\ pc' = [pc EXCEPT ![i] = "send"]
                    /\ local' = [local EXCEPT ![i].err = f.err]
          ELSE /\ local' = [local EXCEPT ![i] = Evaluate(slos[i], f, errorBudgetThreshold)]
               /\ pc' = [pc EXCEPT ![i] = IF local'[i].dataNil THEN "exit" ELSE "muLock"]
    /\ UNCHANGED <<calc, slos, resp, errorBudgetThreshold, mainPc, next, sem, wg, errChan,
                   errChanClosed, sloData, mu, bar, warnMessages, warnMutex, calls,
                   sendOrder, report, logged, surfaced>>

\* The provider returns; processSLO classifies the error (lines 532-540) or
\* evaluates the points and returns the record (lines 542-563).
FetchReturn(i) ==
    /\ pc[i] = "fetch"
    /\ LET f == resp[i]
       IN IF f.err # NoErr
          THEN IF IsNoData(f.err)
               THEN /\ pc' = [pc EXCEPT ![i] = "warnLock"]
                    /\ local' = [local EXCEPT ![i].err = f.err]
               ELSE /\ pc' = [pc EXCEPT ![i] = "send"]
                    /\ local' = [local EXCEPT ![i].err = f.err]
          ELSE /\ local' = [local EXCEPT ![i] = Evaluate(slos[i], f, errorBudgetThreshold)]
               /\ pc' = [pc EXCEPT ![i] = IF local'[i].dataNil THEN "exit" ELSE "muLock"]
    /\ UNCHANGED <<calc, slos, resp, errorBudgetThreshold, mainPc, next, sem, wg, errChan,
                   errChanClosed, sloData, mu, bar, warnMessages, warnMutex, calls,
                   sendOrder, report, logged, surfaced>>

\* warnMutex.Lock() (line 534).
WarnLock(i) ==
    /\ pc[i] = "warnLock"
    /\ warnMutex = 0
    /\ warnMutex' = i
    /\ pc' = [pc EXCEPT ![i] = "warnAppend"]
    /\ UNCHANGED <<calc, slos, resp, errorBudgetThreshold, mainPc, next, sem, wg, errChan,
                   errChanClosed, sloData, mu, bar, warnMessages, local, calls,
                   sendOrder, report, logged, surfaced>>

\* Variant of WarnAppend: the progress bar is advanced for a warning too.
WarnAppendAdvancesBar(i) ==
    /\ pc[i] = "warnAppend"
    /\ warnMessages' = Append(warnMessages, local[i].err)
    /\ warnMutex' = 0
    /\ bar' = bar + 1
    /\ local' = [local EXCEPT ![i].err = NoErr]
    /\ pc' = [pc EXCEPT ![i] = "exit"]
    /\ UNCHANGED <<calc, slos, resp, errorBudgetThreshold, mainPc, next, sem, wg, errChan,
                   errChanClosed, sloData, mu, calls, sendOrder, report, logged,
                   surfaced>>

\* The append, warnMutex.Unlock() and return nil, nil (lines 535-537); the
\* goroutine then skips both branches of lines 487 and 491.
WarnAppend(i) ==
    /\ pc[i] = "warnAppend"
    /\ warnMessages' = Append(warnMessages, local[i].err)
    /\ warnMutex' = 0
    /\ local' = [local EXCEPT ![i].err = NoErr]
    /\ pc' = [pc EXCEPT ![i] = "exit"]
    /\ UNCHANGED <<calc, slos, resp, errorBudgetThreshold, mainPc, next, sem, wg, errChan,
                   errChanClosed, sloData, mu, bar, calls, sendOrder, report, logged,
                   surfaced>>

\* Variant of SendErr: errChan has room for one error only.
SendErrCapacityOne(i) ==
    /\ pc[i] = "send"
    /\ Len(errChan) < 1
    /\ errChan' = Append(errChan, WrapErr(slos[i], local[i].err))
    /\ sendOrder' = Append(sendOrder, i)
    /\ pc' = [pc EXCEPT ![i] = "exit"]
    /\ UNCHANGED <<calc, slos, resp, errorBudgetThreshold, mainPc, next, sem, wg,
                   errChanClosed, sloData, mu, bar, warnMessages, warnMutex, local,
                   calls, report, logged, surfaced>>

\* errChan <- fmt.Errorf(...) (line 488); blocks while the buffer is full.
ChanSend(ch, e) == Append(ch, e)

SendErr(i) ==
    /\ pc[i] = "send"
    /\ Len(errChan) < Len(slos)
    /\ errChan' = ChanSend(errChan, WrapErr(slos[i], local[i].err))
    /\ sendOrder' = Append(sendOrder, i)
    /\ pc' = [pc EXCEPT ![i] = "exit"]
    /\ UNCHANGED <<calc, slos, resp, errorBudgetThreshold, mainPc, next, sem, wg,
                   errChanClosed, sloData, mu, bar, warnMessages, warnMutex, local,
                   calls, report, logged, surfaced>>

\* Variant of MuLock: the goroutine enters without waiting for the lock.
MuLockNoWait(i) ==
    /\ pc[i] = "muLock"
    /\ mu' = i
    /\ pc' = [pc EXCEPT ![i] = "merge"]
    /\ UNCHANGED <<calc, slos, resp, errorBudgetThreshold, mainPc, next, sem, wg, errChan,
                   errChanClosed, sloData, bar, warnMessages, warnMutex, local, calls,
                   sendOrder, report, logged, surfaced>>

\* mu.Lock() (line 492).
MuLock(i) ==
    /\ pc[i] = "muLock"
    /\ mu = 0
    /\ mu' = i
    /\ pc' = [pc EXCEPT ![i] = "merge"]
    /\ UNCHANGED <<calc, slos, resp, errorBudgetThreshold, mainPc, next, sem, wg, errChan,
                   errChanClosed, sloData, bar, warnMessages, warnMutex, local, calls,
                   sendOrder, report, logged, surfaced>>

\* Variant of MergeInto: a key already present keeps its record.
MergeIntoKeepFirst(m, data) == m @@ data

\* Variant of MergeInto: the map is replaced by the record of the goroutine.
MergeIntoReplace(m, data) == data

\* for k, v := range data { sloData[k] = v } (lines 493-495).
MergeInto(m, data) == data @@ m

\* The merge, bar.Add(1) and mu.Unlock() (lines 493-500).
Merge(i) ==
    /\ pc[i] = "merge"
    /\ sloData' = MergeInto(sloData, local[i].data)
    /\ bar' = bar + 1
    /\ mu' = 0
    /\ pc' = [pc EXCEPT ![i] = "exit"]
    /\ UNCHANGED <<calc, slos, resp, errorBudgetThreshold, mainPc, next, sem, wg, errChan,
                   errChanClosed, warnMessages, warnMutex, local, calls, sendOrder,
                   report, logged, surfaced>>

\* The deferred calls (lines 483-484): <-sem, then wg.Done().
Exit(i) ==
    /\ pc[i] = "exit"
    /\ sem > 0
    /\ sem' = sem - 1
    /\ wg' = wg - 1
    /\ pc' = [pc EXCEPT ![i] = "done"]
    /\ UNCHANGED <<calc, slos, resp, errorBudgetThreshold, mainPc, next, errChan,
                   errChanClosed, sloData, mu, bar, warnMessages, warnMutex, local,
                   calls, sendOrder, report, logged, surfaced>>

(***************************************************************************)
(* main, lines 505-523: the join and the decision.                         *)
(***************************************************************************)
\* Variant of WaitReturns: wg.Add(1) is executed by the goroutine, so a
\* goroutine that has not run yet is not waited for.
WaitReturnsLateAdd == \A i \in Workers : pc[i] \in {"start", "done"}

\* Variant of WaitReturns: main does not wait for the goroutines.
WaitReturnsEarly == TRUE

\* wg.Wait() returns; close(errChan); bar.Finish() (lines 505-510).
WaitReturns == wg = 0

Join ==
    /\ mainPc = "wait"
    /\ WaitReturns
    /\ errChanClosed' = TRUE
    /\ mainPc' = "joined"
    /\ UNCHANGED <<calc, slos, resp, errorBudgetThreshold, next, sem, wg, errChan, sloData,
                   mu, bar, warnMessages, warnMutex, pc, local, calls, sendOrder,
                   report, logged, surfaced>>

\* Variant of ChanRecv: the newest element is received.
ChanRecvLast(ch) == ch[Len(ch)]

\* <-errChan on a buffered channel: the oldest element.
ChanRecv(ch) == Head(ch)

\* len(errChan) > 0: receive one error and panic with it (lines 512-515).
Abort ==
    /\ mainPc = "joined"
    /\ Len(errChan) > 0
    /\ surfaced' = Append(surfaced, ChanRecv(errChan))
    /\ errChan' = Tail(errChan)
    /\ mainPc' = "aborted"
    /\ UNCHANGED <<calc, slos, resp, errorBudgetThreshold, next, sem, wg, errChanClosed,
                   sloData, mu, bar, warnMessages, warnMutex, pc, local, calls,
                   sendOrder, report, logged>>

\* Variant of Complete: the report is generated whatever errChan holds.
CompleteAlways ==
    /\ mainPc = "joined"
    /\ report' = [called |-> TRUE, data |-> sloData]
    /\ logged' = warnMessages
    /\ mainPc' = "completed"
    /\ UNCHANGED <<calc, slos, resp, errorBudgetThreshold, next, sem, wg, errChan,
                   errChanClosed, sloData, mu, bar, warnMessages, warnMutex, pc, local,
                   calls, sendOrder, surfaced>>

\* generateExcelReport(sloData), then the warnings are printed (lines 517-523).
Complete ==
    /\ mainPc = "joined"
    /\ Len(errChan) = 0
    /\ report' = [called |-> TRUE, data |-> sloData]
    /\ logged' = warnMessages
    /\ mainPc' = "completed"
    /\ UNCHANGED <<calc, slos, resp, errorBudgetThreshold, next, sem, wg, errChan,
                   errChanClosed, sloData, mu, bar, warnMessages, warnMutex, pc, local,
                   calls, sendOrder, surfaced>>

Next ==
    \/ Dispatch
    \/ LoopExit
    \/ \E i \in Workers : Call(i)
    \/ \E i \in Workers : FetchReturn(i)
    \/ \E i \in Workers : WarnLock(i)
    \/ \E i \in Workers : WarnAppend(i)
    \/ \E i \in Workers : SendErr(i)
    \/ \E i \in Workers : MuLock(i)
    \/ \E i \in Workers : Merge(i)
    \/ \E i \in Workers : Exit(i)
    \/ Join
    \/ Abort
    \/ Complete

Spec == Init /\ [][Next]_vars

\* The scheduler runs every goroutine that can take a step, and every
\* provider call returns.
SpecLive == Init /\ [][Next]_vars /\ WF_vars(Next)

(***************************************************************************)
(* The functions of utils/calc.go applied to arbitrary arguments.          *)
(***************************************************************************)
InitCalc ==
    /\ slos = <<>>
    /\ resp = <<>>
    /\ errorBudgetThreshold = DefaultThreshold
    /\ InitRun(0)
    /\ \E data \in SeqsUpTo(CalcValues, MaxLen), percent \in Percents :
            calc = Calc(data, percent)

\* negative := IsPercentNegative(data, percent)
ApplyIsPercentNegative ==
    /\ "IsPercentNegative" \notin calc.called
    /\ calc' = [calc EXCEPT !.called = @ \cup {"IsPercentNegative"},
                            !.negative = IsPercentNegative(calc.data, calc.percent)]
    /\ UNCHANGED <<slos, resp, errorBudgetThreshold, mainPc, next, sem, wg, errChan,
                   errChanClosed, sloData, mu, bar, warnMessages, warnMutex, pc, local,
                   calls, sendOrder, report, logged, surfaced>>

\* minValue, avgValue := GetMinAvgErrorBudget(data)
ApplyGetMinAvgErrorBudget ==
    /\ "GetMinAvgErrorBudget" \notin calc.called
    /\ LET r == GetMinAvgErrorBudget(calc.data)
       IN calc' = [calc EXCEPT !.called = @ \cup {"GetMinAvgErrorBudget"},
                               !.minValue = r[1], !.avgValue = r[2]]
    /\ UNCHANGED <<slos, resp, errorBudgetThreshold, mainPc, next, sem, wg, errChan,
                   errChanClosed, sloData, mu, bar, warnMessages, warnMutex, pc, local,
                   calls, sendOrder, report, logged, surfaced>>

NextCalc ==
    \/ ApplyIsPercentNegative
    \/ ApplyGetMinAvgErrorBudget

SpecCalc == InitCalc /\ [][NextCalc]_vars

SpecEval == InitEval /\ [][Next]_vars

(***************************************************************************)
(* Vocabulary of the properties.                                           *)
(***************************************************************************)
\* The outcome of the fetch of slos[i].
HardError(i) == resp[i].err # NoErr /\ ~Contains(resp[i].err, NoDataText)
NoData(i) == resp[i].err # NoErr /\ Contains(resp[i].err, NoDataText)
HasData(i) == resp[i].err = NoErr

\* The fetch of slos[i] has returned.
Fetched(i) == pc[i] \notin {"idle", "start", "fetch"}
\* The goroutine of slos[i] is inside its processSLO call.
InProcessSLO(i) == pc[i] \in {"start", "fetch", "warnLock", "warnAppend"}
\* The goroutine of slos[i] has started and has not run its deferred calls.
Running(i) == pc[i] \notin {"idle", "done"}
\* The provider call for slos[i] is in flight.
InFlight(i) == pc[i] = "fetch"

Decided == mainPc \in {"joined", "completed", "aborted"}
Terminal == mainPc \in {"completed", "aborted"}

DistinctDisplayNames ==
    \A i, j \in Workers : slos[i].DisplayName = slos[j].DisplayName => i = j

\* How often the element e occurs in the sequence q.
Occurrences(q, e) == Cardinality({k \in 1..Len(q) : q[k] = e})

\* The record of slos[i] is in the map m (goals differ between SLOs).
RecordOf(m, i) == \E k \in DOMAIN m : m[k].SLO = slos[i].Goal /\ m[k].GoodQuery = resp[i].good

(***************************************************************************)
(* The orchestrator.                                                       *)
(***************************************************************************)
\* C1: at any time at most maxConcurrency goroutines have started and not
\* finished; so at most maxConcurrency are inside processSLO and at most
\* maxConcurrency provider calls are in flight, whatever the outcomes.
C1_ConcurrencyBound ==
    /\ Cardinality({i \in Workers : Running(i)}) <= maxConcurrency
    /\ Cardinality({i \in Workers : InProcessSLO(i)}) <= maxConcurrency
    /\ Cardinality({i \in Workers : InFlight(i)}) <= maxConcurrency

\* The gate is full of provider calls in flight while an SLO waits for a slot.
C1_Witness ==
    /\ Cardinality({i \in Workers : InFlight(i)}) = maxConcurrency
    /\ next < Len(slos)

\* C2: once the fetch of some SLO has failed with an error other than no
\* data, the report generator is never invoked and the run can only end
\* aborted; a completed run had no such failure in the batch.
C2_HardErrorAborts ==
    /\ (\E i \in Workers : Fetched(i) /\ HardError(i)) =>
            /\ ~report.called
            /\ mainPc # "completed"
            /\ (Terminal => mainPc = "aborted" /\ Len(surfaced) = 1)
    /\ mainPc = "completed" =>
            /\ report.called
            /\ \A i \in Workers : Fetched(i) /\ ~HardError(i)
    /\ mainPc = "aborted" => ~report.called

\* A run aborted although records of other SLOs had been merged.
C2_Witness ==
    /\ mainPc = "aborted"
    /\ DOMAIN sloData # {}
    /\ ~report.called

\* C3: an SLO whose fetch reported no data has, once its goroutine is past
\* processSLO, exactly one warning in the list (the list holds as many
\* entries as such SLOs), no record in the result map and no error in
\* errChan; a batch without hard errors never ends aborted and, once main
\* has joined, has an empty errChan.
C3_NoDataIsWarning ==
    LET warned == {i \in Workers : NoData(i) /\ pc[i] \in {"exit", "done"}}
    IN /\ Len(warnMessages) = Cardinality(warned)
       /\ \A i \in warned :
            /\ Occurrences(warnMessages, resp[i].err) =
                   Cardinality({j \in warned : resp[j].err = resp[i].err})
            /\ ~RecordOf(sloData, i)
            /\ \A k \in 1..Len(sendOrder) : sendOrder[k] # i
            /\ calls[i] = 1
       /\ (\A i \in Workers : ~HardError(i)) =>
            /\ errChan = <<>>
            /\ mainPc # "aborted"
            /\ (Terminal => mainPc = "completed" /\ report.called)

\* A run completed with a warning printed and a record reported.
C3_Witness ==
    /\ mainPc = "completed"
    /\ Len(logged) >= 1
    /\ DOMAIN report.data # {}
    /\ \E i \in Workers : NoData(i)

\* C4: main decides only when every SLO of the list has been dispatched and
\* fetched and its goroutine has finished, also when a hard error was
\* captured early; after the decision the result map and the warning list
\* do not change.
C4_FailAfterComplete ==
    /\ [](Decided => \A i \in Workers : pc[i] = "done" /\ calls[i] = 1)
    /\ [](Len(sendOrder) > 0 /\ ~Decided =>
            \A i \in Workers : pc[i] = "idle" => mainPc = "dispatch" /\ next < i)
    /\ [][Decided => sloData' = sloData /\ warnMessages' = warnMessages]_vars

\* A hard error is in errChan while one sibling merges its record and another
\* one has just been dispatched.
C4_Witness ==
    /\ Len(sendOrder) > 0
    /\ \E i, j \in Workers : pc[i] = "start" /\ pc[j] = "merge"

\* C5: an aborted run surfaces exactly one error, that of the goroutine that
\* sent to errChan first; no other run surfaces an error.
C5_FirstErrorWins ==
    /\ mainPc = "aborted" =>
            /\ Len(surfaced) = 1
            /\ Len(sendOrder) >= 1
            /\ surfaced[1] = WrapErr(slos[sendOrder[1]], resp[sendOrder[1]].err)
    /\ mainPc # "aborted" => surfaced = <<>>

\* Two goroutines sent different errors and the run aborted.
C5_Witness ==
    /\ mainPc = "aborted"
    /\ Len(sendOrder) >= 2
    /\ WrapErr(slos[sendOrder[1]], resp[sendOrder[1]].err)
           # WrapErr(slos[sendOrder[2]], resp[sendOrder[2]].err)

\* C6: a completed run over pairwise distinct display names reports a map
\* whose keys are exactly the display names of the SLOs that returned data,
\* each with the record evaluated from that SLO's points, and prints a
\* warning list with exactly one entry per SLO without data; records plus
\* warnings are the number of SLOs.
C6_CompletedAggregate ==
    mainPc = "completed" /\ DistinctDisplayNames =>
        /\ DOMAIN report.data = {slos[i].DisplayName : i \in {j \in Workers : HasData(j)}}
        /\ \A i \in Workers : HasData(i) =>
                report.data[slos[i].DisplayName] =
                    Evaluate(slos[i], resp[i], errorBudgetThreshold).data[slos[i].DisplayName]
        /\ Len(logged) = Cardinality({i \in Workers : NoData(i)})
        /\ \A i \in Workers : NoData(i) => Occurrences(logged, ErrNoData(slos[i])) = 1
        /\ Cardinality(DOMAIN report.data) + Len(logged) = Len(slos)

\* A completed run with two records and a warning.
C6_Witness ==
    /\ mainPc = "completed"
    /\ DistinctDisplayNames
    /\ Cardinality(DOMAIN report.data) >= 1
    /\ Len(logged) >= 1
    /\ Len(slos) >= 2

(***************************************************************************)
(* The evaluator.                                                          *)
(***************************************************************************)
\* processSLO has evaluated the points of slos[i].
Evaluated(i) == Fetched(i) /\ HasData(i)
\* The record processSLO returned for slos[i].
Record(i) == local[i].data[slos[i].DisplayName]

AllAtLeast(points, threshold) == \A k \in 1..Len(points) : points[k] >= threshold
SomeAtLeast(points, threshold) == \E k \in 1..Len(points) : points[k] >= threshold
Negatives(points) == Cardinality({k \in 1..Len(points) : points[k] < 0})

RECURSIVE SumOf(_)
SumOf(points) == IF points = <<>> THEN 0 ELSE Head(points) + SumOf(Tail(points))

\* C7: the below-threshold rule holds for an evaluated SLO exactly when
\* every point of its sequence is >= errorBudgetThreshold.
C7_BelowThresholdIsAllPoints ==
    \A i \in Workers : Evaluated(i) =>
        (local[i].flagBelowThreshold <=> AllAtLeast(resp[i].points, errorBudgetThreshold))

\* C8 as stated: when every point is >= the threshold and fewer than half of
\* the points are negative, the record's flag is false.
C8_AllAboveUnflagged ==
    \A i \in Workers :
        /\ Evaluated(i)
        /\ AllAtLeast(resp[i].points, errorBudgetThreshold)
        /\ 2 * Negatives(resp[i].points) < Len(resp[i].points)
        => Record(i).Flag = FALSE

\* C8, amended: when every point is >= the threshold and fewer than half of
\* the points are negative, the record's flag is true.
C8_AllAboveFlagged ==
    \A i \in Workers :
        /\ Evaluated(i)
        /\ AllAtLeast(resp[i].points, errorBudgetThreshold)
        /\ 2 * Negatives(resp[i].points) < Len(resp[i].points)
        => Record(i).Flag = TRUE

\* A merged record of several points, all >= the threshold, one equal to it.
C8_Witness ==
    \E i \in Workers :
        /\ pc[i] = "done"
        /\ Evaluated(i)
        /\ Len(resp[i].points) >= 2
        /\ AllAtLeast(resp[i].points, errorBudgetThreshold)
        /\ \E k \in 1..Len(resp[i].points) : resp[i].points[k] = errorBudgetThreshold
        /\ sloData[slos[i].DisplayName].Flag = TRUE

C10_StatisticsOverAllPoints ==
    \A i \in Workers : Evaluated(i) =>
        LET points == resp[i].points
            rec == Record(i)
        IN /\ ~rec.MinBudget.inf
           /\ \E k \in 1..Len(points) : points[k] = rec.MinBudget.v
           /\ \A k \in 1..Len(points) : rec.MinBudget.v <= points[k]
           /\ rec.AvgBudget.num = SumOf(points)
           /\ rec.AvgBudget.den = Len(points)
           /\ rec.SLO = slos[i].Goal
           /\ rec.GoodQuery = resp[i].good
           /\ rec.TotalQuery = resp[i].total

\* An unflagged merged record whose points lie below the threshold, of mixed
\* sign, with the minimum not in first place.
C10_Witness ==
    \E i \in Workers :
        /\ pc[i] = "done"
        /\ Evaluated(i)
        /\ ~sloData[slos[i].DisplayName].Flag
        /\ Len(resp[i].points) >= 3
        /\ sloData[slos[i].DisplayName].MinBudget.v < 0
        /\ sloData[slos[i].DisplayName].MinBudget.v # resp[i].points[1]
        /\ \A k \in 1..Len(resp[i].points) : resp[i].points[k] < errorBudgetThreshold

(***************************************************************************)
(* The statistics functions.                                               *)
(***************************************************************************)
\* C11: IsPercentNegative(data, percent) is true exactly when data is not
\* empty, percent lies in [0, 1] and the strictly negative elements are at
\* least the fraction percent of data; a zero element is not negative and a
\* percent outside [0, 1] gives false.
C11_IsPercentNegative ==
    "IsPercentNegative" \in calc.called =>
        /\ calc.negative <=>
                /\ Len(calc.data) > 0
                /\ 0 <= calc.percent.num
                /\ calc.percent.num <= calc.percent.den
                /\ Negatives(calc.data) * calc.percent.den >= calc.percent.num * Len(calc.data)
        /\ (calc.percent.num < 0 \/ calc.percent.num > calc.percent.den) => ~calc.negative

\* True on the border: the data hold a zero and exactly the fraction percent
\* of them is negative.
C11_Witness ==
    /\ "IsPercentNegative" \in calc.called
    /\ calc.negative
    /\ calc.percent.num > 0
    /\ \E k \in 1..Len(calc.data) : calc.data[k] = 0
    /\ Negatives(calc.data) * calc.percent.den = calc.percent.num * Len(calc.data)

\* C12: on the empty sequence GetMinAvgErrorBudget returns the finite pair
\* (0, 0) and IsPercentNegative returns false for every percent.
C12_TotalOnEmpty ==
    calc.data = <<>> =>
        /\ "GetMinAvgErrorBudget" \in calc.called =>
                /\ calc.minValue = Fin(0)
                /\ calc.avgValue.num = 0
                /\ calc.avgValue.den # 0
        /\ "IsPercentNegative" \in calc.called => ~calc.negative

\* Both functions were applied to the empty sequence, with percent 0.
C12_Witness ==
    /\ calc.data = <<>>
    /\ calc.called = {"GetMinAvgErrorBudget", "IsPercentNegative"}
    /\ calc.percent.num = 0

(***************************************************************************)
(* Shared state of the orchestrator.                                       *)
(***************************************************************************)
\* The goroutines that have merged their record.
Merged == {i \in Workers : HasData(i) /\ pc[i] \in {"exit", "done"}}

\* C13: the progress bar has been advanced as often as records have been
\* merged; it advances by one, in the critical section of mu in which the
\* record is merged, and in no other step (not for a warning, not for a
\* hard error).
C13_BarCountsMerges ==
    /\ [](bar = Cardinality(Merged))
    /\ [][bar' # bar =>
            /\ bar' = bar + 1
            /\ mu # 0
            /\ pc[mu] = "merge"
            /\ pc'[mu] = "exit"
            /\ sloData' = local[mu].data @@ sloData
            /\ warnMessages' = warnMessages
            /\ errChan' = errChan]_vars
    /\ [][sloData' # sloData => bar' = bar + 1]_vars

\* A record, a warning and a hard error in one run; the bar stands at the
\* number of records.
C13_Witness ==
    /\ bar >= 1
    /\ Len(warnMessages) >= 1
    /\ Len(sendOrder) >= 1
    /\ bar = Cardinality(DOMAIN sloData)

\* C14: at most one goroutine is in the critical section of the result
\* map and at most one in that of the warning list; a goroutine in a
\* critical section holds its lock, the map and the list change only in a
\* step of the holder of their lock, and no lock is held by a goroutine
\* whose provider call has not returned.
C14_MutualExclusion ==
    /\ [](\A i, j \in Workers :
            /\ (pc[i] = "merge" /\ pc[j] = "merge" => i = j)
            /\ (pc[i] = "warnAppend" /\ pc[j] = "warnAppend" => i = j))
    /\ [](\A i \in Workers :
            /\ (pc[i] = "merge" <=> mu = i)
            /\ (pc[i] = "warnAppend" <=> warnMutex = i)
            /\ (pc[i] \in {"start", "fetch"} => mu # i /\ warnMutex # i))
    /\ [][sloData' # sloData => mu # 0 /\ pc[mu] = "merge" /\ pc'[mu] = "exit"]_vars
    /\ [][warnMessages' # warnMessages =>
            warnMutex # 0 /\ pc[warnMutex] = "warnAppend" /\ pc'[warnMutex] = "exit"]_vars

\* One goroutine holds mu while another one waits for it.
C14_Witness ==
    \E i, j \in Workers : pc[i] = "merge" /\ pc[j] = "muLock"

\* C15: the result map holds one record per display name of the merged
\* SLOs, each the record of a merged SLO of that name; a merge puts the
\* record of its goroutine under its display name, replacing what was there,
\* leaves the other keys, the warnings and errChan as they are; a completed
\* run reports as many records as there are distinct display names among
\* the SLOs that returned data.
C15_CollisionOverwrites ==
    /\ [](DOMAIN sloData = {slos[i].DisplayName : i \in Merged})
    /\ [](\A k \in DOMAIN sloData :
            \E i \in Merged : slos[i].DisplayName = k /\ sloData[k] = Record(i))
    /\ [](mainPc = "completed" =>
            Cardinality(DOMAIN report.data) =
                Cardinality({slos[i].DisplayName : i \in {j \in Workers : HasData(j)}}))
    /\ [][\A i \in Workers : pc[i] = "merge" /\ pc'[i] = "exit" =>
            /\ DOMAIN sloData' = DOMAIN sloData \cup {slos[i].DisplayName}
            /\ sloData'[slos[i].DisplayName] = Record(i)
            /\ \A k \in DOMAIN sloData \ {slos[i].DisplayName} : sloData'[k] = sloData[k]
            /\ warnMessages' = warnMessages
            /\ errChan' = errChan]_vars

\* Two SLOs of one display name returned data, the one later in the list
\* merged first, and the report holds the record of the earlier one.
C15_Witness ==
    /\ mainPc = "completed"
    /\ \E i, j \in Workers :
            /\ i < j
            /\ HasData(i) /\ HasData(j)
            /\ slos[i].DisplayName = slos[j].DisplayName
            /\ report.data[slos[i].DisplayName] = Record(i)
            /\ Record(i) # Record(j)

\* C17: the provider is called at most once for each SLO of the list,
\* exactly once for each SLO whose fetch is under way or has returned, and
\* exactly once for every SLO when main has decided, whatever the outcome.
C17_OneFetchPerSLO ==
    /\ DOMAIN calls = 1..Len(slos)
    /\ \A i \in Workers :
            /\ calls[i] <= 1
            /\ (pc[i] \in {"idle", "start"} => calls[i] = 0)
            /\ (pc[i] \notin {"idle", "start"} => calls[i] = 1)
            /\ (Terminal => calls[i] = 1)

\* A terminal state of a run with a no-data failure, a hard error and a
\* success.
C17_Witness ==
    /\ Terminal
    /\ \E i, j, k \in Workers : NoData(i) /\ HardError(j) /\ HasData(k)

\* The result map and the warnings the inputs determine.
DataNames == {slos[i].DisplayName : i \in {j \in Workers : HasData(j)}}
ExpectedMap ==
    [k \in DataNames |->
        LET i == CHOOSE j \in Workers : HasData(j) /\ slos[j].DisplayName = k
        IN Evaluate(slos[i], resp[i], errorBudgetThreshold).data[k]]
ExpectedWarnings == {ErrNoData(slos[i]) : i \in {j \in Workers : NoData(j)}}

\* C20: with pairwise distinct display names the terminal kind, the
\* reported map and the set of printed warnings are functions of the SLO
\* list and of the outcomes of the provider, hence the same in every
\* interleaving: the run is aborted exactly when some outcome is a hard
\* error, and a completed run reports the map and prints the warnings the
\* inputs determine.
C20_ScheduleIndependent ==
    Terminal /\ DistinctDisplayNames =>
        /\ mainPc = "aborted" <=> \E i \in Workers : HardError(i)
        /\ mainPc = "completed" =>
                /\ report.data = ExpectedMap
                /\ {logged[k] : k \in 1..Len(logged)} = ExpectedWarnings
                /\ Len(logged) = Cardinality(ExpectedWarnings)

\* A completed run whose warnings were printed against the order of the list.
C20_Witness ==
    /\ mainPc = "completed"
    /\ DistinctDisplayNames
    /\ \E i, j \in Workers :
            /\ i < j
            /\ NoData(i) /\ NoData(j)
            /\ logged = <<ErrNoData(slos[j]), ErrNoData(slos[i])>>

(***************************************************************************)
(* Edge cases of the evaluator.                                            *)
(***************************************************************************)
\* C16: for a sequence of one point p the below-threshold flag is
\* p >= errorBudgetThreshold, the negative flag is p < 0 and the record's
\* flag is their disjunction.
C16_SinglePoint ==
    \A i \in Workers : Evaluated(i) /\ Len(resp[i].points) = 1 =>
        LET p == resp[i].points[1]
        IN /\ local[i].flagBelowThreshold <=> p >= errorBudgetThreshold
           /\ local[i].flagNegative <=> p < 0
           /\ Record(i).Flag <=> (p >= errorBudgetThreshold \/ p < 0)

\* A merged, unflagged record of one point that is zero.
C16_Witness ==
    \E i \in Workers :
        /\ pc[i] = "done"
        /\ Evaluated(i)
        /\ resp[i].points = <<0>>
        /\ sloData[slos[i].DisplayName].Flag = FALSE

\* C18: a successful fetch carries at least one point; processSLO returns a
\* record only for such a fetch and, for a no-data failure, returns before
\* any flag or statistic is computed; every record of the result map is the
\* record of an SLO with a non-empty sequence, with a finite minimum and an
\* average over at least one point.
C18_NeverEvaluatesEmpty ==
    /\ \A i \in Workers :
            /\ HasData(i) => Len(resp[i].points) > 0
            /\ ~local[i].dataNil => Evaluated(i) /\ Len(resp[i].points) > 0
            /\ ~HasData(i) =>
                    /\ local[i].dataNil
                    /\ local[i].data = EmptyMap
                    /\ ~local[i].flagBelowThreshold
                    /\ ~local[i].flagNegative
    /\ \A k \in DOMAIN sloData :
            /\ \E i \in Workers :
                    /\ Evaluated(i)
                    /\ Len(resp[i].points) > 0
                    /\ sloData[k] = Record(i)
            /\ ~sloData[k].MinBudget.inf
            /\ sloData[k].AvgBudget.den > 0

\* The fetch found no points: one warning, nothing evaluated, no record.
C18_Witness ==
    \E i \in Workers :
        /\ NoData(i)
        /\ pc[i] = "done"
        /\ local[i] = NoLocal
        /\ Len(warnMessages) = 1
        /\ DOMAIN sloData = {}

(***************************************************************************)
(* Classification of failures.                                             *)
(***************************************************************************)
\* The provider failed because it found zero points (gcp.go:144-146).
ZeroPoints(i) == resp[i].err = ErrNoData(slos[i])
\* processSLO took the warning branch, or the branch that returns the error.
WarningPath(i) ==
    \/ pc[i] \in {"warnLock", "warnAppend"}
    \/ pc[i] \in {"exit", "done"} /\ Occurrences(warnMessages, resp[i].err) > 0
HardPath(i) == pc[i] = "send" \/ \E k \in 1..Len(sendOrder) : sendOrder[k] = i
Failed(i) == Fetched(i) /\ resp[i].err # NoErr

\* The branch is chosen by the text of the error, and only one is taken.
ClassifiedByText(i) ==
    /\ WarningPath(i) <=> Contains(resp[i].err, NoDataText)
    /\ HardPath(i) <=> ~Contains(resp[i].err, NoDataText)
    /\ ~(WarningPath(i) /\ HardPath(i))
\* A failure for a reason other than zero points is a hard error and the
\* run does not complete.
OtherCausesAbort(i) ==
    ~ZeroPoints(i) => HardPath(i) /\ ~WarningPath(i) /\ mainPc # "completed"

\* C21: a failed fetch is a warning exactly when the text of its error
\* contains "no data points found" and a hard error otherwise, never both;
\* and every failure for a reason other than zero points (network failure,
\* wrong SLI type) is a hard error that aborts the run.
C21_ClassifiedByCause ==
    \A i \in Workers : Failed(i) => ClassifiedByText(i) /\ OtherCausesAbort(i)

(***************************************************************************)
(* Termination.                                                            *)
(***************************************************************************)
\* C19: every run reaches a terminal state; the slots taken from the gate
\* are those of the goroutines that have started and not finished, so every
\* goroutine gives its slot back once on each exit path and none is taken at
\* the end; a goroutine about to send a hard error finds room in errChan.
C19_Terminates ==
    /\ <>Terminal
    /\ [](sem = Cardinality({i \in Workers : Running(i)}) /\ wg = sem)
    /\ [](\A i \in Workers : pc[i] = "send" => Len(errChan) < Len(slos))
    /\ [](Terminal => sem = 0 /\ wg = 0 /\ \A i \in Workers : pc[i] = "done")

\* A terminal state of a run with more SLOs than slots and two hard errors.
C19_Witness ==
    /\ Terminal
    /\ Len(slos) > maxConcurrency
    /\ Len(sendOrder) >= 2

====
